---- MODULE Spec2Model ----
(***************************************************************************)
(* A model of pslse/psl.c: the PSL session of one AFU.                     *)
(*                                                                         *)
(*   psl_init    validates the AFU name, connects to the AFU simulator,    *)
(*               initialises the job, mmio and cmd handlers, starts the    *)
(*               _psl_loop thread and links the psl into the list.         *)
(*   _psl_loop   clocks the AFU while idle_cycles is nonzero, handles the  *)
(*               AFU's events, then handles every client; on exit it       *)
(*               closes the clients and frees the psl.                     *)
(*   _handle_client, _attach, _free                                        *)
(*               one command byte of one client, the attach handshake,     *)
(*               the release of a client.                                  *)
(*                                                                         *)
(* Two specifications share the module.  Spec runs the worker loop of one  *)
(* session over its client table.  LifeSpec runs psl_init and the loop's   *)
(* teardown over the list of psl structures.                               *)
(***************************************************************************)
EXTENDS Integers, Sequences, FiniteSets

\* ------------------------------------------------------------------ bounds

\* The idle countdown's reset value (psl.h); the model keeps it small.
PSL_IDLE_CYCLES == 2
\* psl->max_clients: the length of the client table.
MaxClients == 2
\* Number of mmio events the mmio handler can hold at once.
MaxMmio == 1
\* Number of psl_init calls of a run of LifeSpec.
MaxSessions == 3

VARIABLES
    psl,        \* the session: state, idle_cycles, job (job->job)
    pc,         \* where the worker is: top, clock, clients, exit, done, killed
    idx,        \* _psl_loop's local i, counted from 1
    client,     \* psl->client[]
    mmio,       \* the mmio handler's events
    ev,         \* what the last step did (history)
    quiet,      \* consecutive clocked iterations without work (history)
    head,       \* *head: the first psl of the list, 0 for NULL
    sessions,   \* every psl structure psl_init has allocated
    call,       \* the last psl_init call: its inputs and its result
    crashed     \* the process has been killed

vars == <<psl, pc, idx, client, mmio, ev, quiet,
          head, sessions, call, crashed>>
loopVars == <<psl, pc, idx, client, mmio, ev, quiet>>
lifeVars == <<head, sessions, call, crashed>>

Clients == 1..MaxClients
MmioIds == 1..MaxMmio

\* ------------------------------------------------------------- data types

\* enum pslse_state, as far as psl.c reads and writes it.
States == {"IDLE", "RUNNING", "DONE"}

\* The command bytes _handle_client compares buffer[0] with; OTHER is any
\* byte that matches none of them.
MemBytes == {"MEM_FAILURE", "MEM_SUCCESS"}
MmioAccessBytes == {"MMIO_WRITE64", "MMIO_READ64", "MMIO_WRITE32", "MMIO_READ32"}
MmioBytes == {"MMIO_MAP"} \cup MmioAccessBytes
Bytes == {"DETACH", "ATTACH", "OTHER"} \cup MemBytes \cup MmioBytes

\* A client slot that holds no client.  closes counts the close() calls on
\* the socket of the slot's connection.
NoClient ==
    [fd |-> -1, valid |-> 0, idle_cycles |-> 0, ip |-> FALSE,
     mem_access |-> "NULL", mmio_access |-> 0, closes |-> 0]

\* The part of the session and of a client that an attach may touch.
Snap(w, i) ==
    [state |-> w.psl.state, idle_cycles |-> w.psl.idle_cycles,
     valid |-> w.client[i].valid, mem_access |-> w.client[i].mem_access,
     mmio_access |-> w.client[i].mmio_access]

\* What a client was when its pass began.
Pre(c) ==
    [valid |-> c.valid, idle_cycles |-> c.idle_cycles,
     busy |-> (c.mem_access # "NULL" \/ c.mmio_access # 0)]

\* The record of a step that did nothing of note.  A pass over a client
\* sets i and pre, an attach sets attach and attKept (nothing of Snap
\* changed), a release sets freed, relValid, relIdle and forced (the
\* memory access was completed with an address error); acks are the ack
\* bytes written; detach: the byte read was DETACH; dispatched: the byte
\* was handed to the cmd or the mmio handler; edge: the AFU was clocked;
\* counted: the iteration found nothing outstanding (line 214's test held).
\* relMem is the state of the released client's memory access when _free
\* began; unlocked: valid was written outside the lock; cmd: client_cmd
\* answered true at line 240; ackLocked: every ack byte was written inside
\* the lock; ackFd: the client's fd when the ack of line 233 was written;
\* read: a command byte was read from the client.
NoEv ==
    [i |-> 0, pre |-> Pre(NoClient), attach |-> "NONE", attKept |-> TRUE,
     acks |-> <<>>, detach |-> FALSE, dispatched |-> FALSE, freed |-> "NONE",
     relValid |-> 0, relIdle |-> 0, forced |-> FALSE, edge |-> FALSE,
     counted |-> FALSE, relMem |-> "NULL", unlocked |-> FALSE, cmd |-> FALSE,
     ackLocked |-> TRUE, ackFd |-> 0, read |-> FALSE]

\* The state the operators below transform.
World == [psl |-> psl, client |-> client, mmio |-> mmio, ev |-> NoEv]

\* mmio->list holds the events not yet acknowledged by the AFU.
MmioListEmpty(m) == \A e \in MmioIds : m[e] \notin {"PENDING", "SENT"}

\* ------------------------------------------- the job, mmio and cmd handlers
\* job.c, mmio.c and cmd.c are not part of psl.c; these are the effects
\* psl.c relies on.

\* add_job: queues the job and returns it, or returns NULL.
add_job(job, ok) == IF ok THEN "PENDING" ELSE job

\* send_job: a pending job is driven to the AFU.
send_job(job) == IF job = "PENDING" THEN "RUNNING" ELSE job

\* send_mmio: the pending mmio events are driven to the AFU.
send_mmio(m) == [e \in MmioIds |-> IF m[e] = "PENDING" THEN "SENT" ELSE m[e]]

\* handle_aux2: the AFU reports the job running or done.  A session that
\* has been set DONE stays DONE.
handle_aux2(p, aux2) ==
    CASE aux2 = "running" ->
            [p EXCEPT !.state = IF @ = "DONE" THEN @ ELSE "RUNNING"]
      [] aux2 = "done" ->
            [p EXCEPT !.state = IF @ = "DONE" THEN @ ELSE "IDLE",
                      !.job = "NULL"]
      [] OTHER -> p

\* handle_mmio_ack: the AFU acknowledges event e (0 for none), which leaves
\* mmio->list; an event no client refers to any more is dropped.
handle_mmio_ack(m, cl, e) ==
    IF e \in MmioIds /\ m[e] = "SENT"
    THEN [m EXCEPT ![e] = IF \E c \in Clients : cl[c].mmio_access = e
                          THEN "ACKED" ELSE "FREE"]
    ELSE m

\* handle_mmio_done: an acknowledged event is answered to the client and
\* freed (NULL is returned); any other stays the client's mmio_access.
handle_mmio_done(m, e) ==
    IF m[e] = "ACKED" THEN [mmio |-> [m EXCEPT ![e] = "FREE"], ret |-> 0]
    ELSE [mmio |-> m, ret |-> e]

\* handle_mmio: a new event is added to mmio->list and returned, or NULL.
handle_mmio(m, ok) ==
    IF ok /\ \E e \in MmioIds : m[e] = "FREE"
    THEN LET e == CHOOSE x \in MmioIds : m[x] = "FREE"
         IN [mmio |-> [m EXCEPT ![e] = "PENDING"], ret |-> e]
    ELSE [mmio |-> m, ret |-> 0]

\* The cmd handlers of _handle_afu: the AFU may issue a memory access for
\* client memc (0 for none), which becomes the client's mem_access, and
\* they move an access that is under way to MEM_DONE.
handle_cmd(cl, memc) ==
    [c \in Clients |->
        IF c = memc /\ cl[c].valid # 0 /\ cl[c].mem_access = "NULL"
        THEN [cl[c] EXCEPT !.mem_access = "MEM_ACTIVE"]
        ELSE IF c = memc /\ cl[c].mem_access = "MEM_ACTIVE"
        THEN [cl[c] EXCEPT !.mem_access = "MEM_DONE"]
        ELSE cl[c]]

\* ----------------------------------------------------------------- _attach

\* _attach returning on a failed read of the wed, in place of the goto.
_attach_return_on_read_failure(w, i, wedOk, jobOk) ==
    LET started == wedOk /\ jobOk
        w1 == IF wedOk
              THEN [w EXCEPT !.psl.job = add_job(@, jobOk),
                             !.psl.idle_cycles =
                                 IF jobOk THEN PSL_IDLE_CYCLES ELSE @]
              ELSE w
        ack == IF started THEN "ATTACH" ELSE "DETACH"
    IN [w1 EXCEPT !.ev.attach = IF started THEN "OK"
                                ELSE IF wedOk THEN "JOBFAIL" ELSE "READFAIL",
                  !.ev.attKept = (Snap(w1, i) = Snap(w, i)),
                  !.ev.acks = IF wedOk THEN Append(@, ack) ELSE @,
                  !.ev.ackLocked = ~wedOk]

\* _attach restarting the countdown before add_job has answered.
_attach_reset_before_add_job(w, i, wedOk, jobOk) ==
    LET started == wedOk /\ jobOk
        w1 == IF wedOk
              THEN [w EXCEPT !.psl.job = add_job(@, jobOk),
                             !.psl.idle_cycles = PSL_IDLE_CYCLES]
              ELSE w
        ack == IF started THEN "ATTACH" ELSE "DETACH"
    IN [w1 EXCEPT !.ev.attach = IF started THEN "OK"
                                ELSE IF wedOk THEN "JOBFAIL" ELSE "READFAIL",
                  !.ev.attKept = (Snap(w1, i) = Snap(w, i)),
                  !.ev.acks = Append(@, ack),
                  !.ev.ackLocked = FALSE]

\* _attach: reads the 8-byte wed (wedOk), asks the job handler to start the
\* AFU (jobOk) and writes one ack byte.
_attach(w, i, wedOk, jobOk) ==
    LET started == wedOk /\ jobOk
        w1 == IF wedOk
              THEN [w EXCEPT !.psl.job = add_job(@, jobOk),
                             !.psl.idle_cycles =
                                 IF jobOk THEN PSL_IDLE_CYCLES ELSE @]
              ELSE w
        ack == IF started THEN "ATTACH" ELSE "DETACH"
    IN [w1 EXCEPT !.ev.attach = IF started THEN "OK"
                                ELSE IF wedOk THEN "JOBFAIL" ELSE "READFAIL",
                  !.ev.attKept = (Snap(w1, i) = Snap(w, i)),
                  !.ev.acks = Append(@, ack),
                  !.ev.ackLocked = FALSE]

\* ------------------------------------------------------------------- _free

\* _free completing the memory access with an address error whatever its
\* state.
_free_overwrites_done(w, i, how) ==
    LET c == w.client[i]
    IN [w EXCEPT !.client[i] = [c EXCEPT !.closes = @ + 1,
                                         !.fd = -1,
                                         !.idle_cycles = 0,
                                         !.ip = FALSE,
                                         !.mem_access = "NULL",
                                         !.mmio_access = 0,
                                         !.valid = 0],
                 !.ev.freed = how,
                 !.ev.relValid = c.valid,
                 !.ev.relIdle = c.idle_cycles,
                 !.ev.forced = (c.mem_access # "NULL"),
                 !.ev.relMem = c.mem_access]

\* _free without the assignment of line 96: the slot stays in use.
_free_keeps_valid(w, i, how) ==
    LET c == w.client[i]
    IN [w EXCEPT !.client[i] = [c EXCEPT !.closes = @ + 1,
                                         !.fd = -1,
                                         !.idle_cycles = 0,
                                         !.ip = FALSE,
                                         !.mem_access = "NULL",
                                         !.mmio_access = 0],
                 !.ev.freed = how,
                 !.ev.relValid = c.valid,
                 !.ev.relIdle = c.idle_cycles,
                 !.ev.forced = (c.mem_access \notin {"NULL", "MEM_DONE"}),
                 !.ev.relMem = c.mem_access]

\* _free: closes the client's socket and clears its slot, all of it inside
\* the lock; a memory access that is not MEM_DONE is completed with
\* PSL_RESPONSE_AERROR (forced).
_free(w, i, how) ==
    LET c == w.client[i]
    IN [w EXCEPT !.client[i] = [c EXCEPT !.closes = @ + 1,
                                         !.fd = -1,
                                         !.idle_cycles = 0,
                                         !.ip = FALSE,
                                         !.mem_access = "NULL",
                                         !.mmio_access = 0,
                                         !.valid = 0],
                 !.ev.freed = how,
                 !.ev.relValid = c.valid,
                 !.ev.relIdle = c.idle_cycles,
                 !.ev.forced = (c.mem_access \notin {"NULL", "MEM_DONE"}),
                 !.ev.relMem = c.mem_access]

\* ---------------------------------------------------------- _handle_client

\* What a client's socket yields: nothing to read (NONE), a hang-up or a
\* failed read (FAIL), or one command byte.  The other fields are the
\* results of the calls the byte leads to.
ClientInputs ==
    {in \in [poll : {"NONE", "FAIL"} \cup Bytes, wedOk : BOOLEAN,
             jobOk : BOOLEAN, mmioOk : BOOLEAN] :
        /\ in.poll # "ATTACH" => in.wedOk /\ in.jobOk
        /\ ~in.wedOk => in.jobOk
        /\ in.poll \notin MmioAccessBytes => in.mmioOk}

\* Lines 124-127: an mmio access in flight is checked for completion.
MmioDone(w, i) ==
    IF w.client[i].mmio_access # 0
    THEN LET r == handle_mmio_done(w.mmio, w.client[i].mmio_access)
         IN [w EXCEPT !.client[i].idle_cycles = PSL_IDLE_CYCLES,
                      !.client[i].mmio_access = r.ret,
                      !.mmio = r.mmio]
    ELSE w

\* The DETACH byte negating valid, in place of setting it to -1.
OnDetach_negate(w, i) ==
    [w EXCEPT !.client[i].idle_cycles = PSL_IDLE_CYCLES,
              !.client[i].valid = -@,
              !.ev.detach = TRUE,
              !.ev.unlocked = TRUE]

\* Lines 140-143: the DETACH byte.  No lock is taken around the two
\* assignments.
OnDetach(w, i) ==
    [w EXCEPT !.client[i].idle_cycles = PSL_IDLE_CYCLES,
              !.client[i].valid = -1,
              !.ev.detach = TRUE,
              !.ev.unlocked = TRUE]

\* Lines 144-168: the other bytes.
OnByte(w, i, in) ==
    LET b == in.poll
        w2 == IF b = "ATTACH" THEN _attach(w, i, in.wedOk, in.jobOk) ELSE w
        w3 == IF b \in MemBytes
              THEN [w2 EXCEPT !.client[i].mem_access = "NULL",
                              !.ev.dispatched = TRUE]
              ELSE w2
        w4 == IF b = "MMIO_MAP" THEN [w3 EXCEPT !.ev.dispatched = TRUE] ELSE w3
        r  == handle_mmio(w4.mmio, in.mmioOk)
    IN IF b \in MmioAccessBytes
       THEN [w4 EXCEPT !.mmio = r.mmio,
                       !.client[i].mmio_access = IF r.ret # 0 THEN r.ret ELSE @,
                       !.ev.dispatched = TRUE]
       ELSE w4

\* The dispatch returning after the DETACH byte without restarting the
\* client's countdown.
Dispatch_detach_keeps_countdown(w, i, in) ==
    IF in.poll = "DETACH"
    THEN [w EXCEPT !.client[i].valid = -1, !.ev.detach = TRUE,
                   !.ev.unlocked = TRUE, !.ev.read = TRUE]
    ELSE [OnByte(w, i, in) EXCEPT !.client[i].idle_cycles = PSL_IDLE_CYCLES,
                                  !.ev.read = TRUE]

\* Lines 140-169: the dispatch on buffer[0]; whatever the byte, line 169
\* restarts the client's countdown.
Dispatch(w, i, in) ==
    LET w1 == IF in.poll = "DETACH" THEN OnDetach(w, i) ELSE w
    IN [OnByte(w1, i, in) EXCEPT !.client[i].idle_cycles = PSL_IDLE_CYCLES,
                                 !.ev.read = TRUE]

\* _handle_client answering a failed read with a DETACH ack before the
\* release.
_handle_client_acks_failed_read(w, i, in) ==
    LET w0 == MmioDone(w, i)
    IN IF in.poll = "NONE" THEN w0
       ELSE IF in.poll = "FAIL"
       THEN _free([w0 EXCEPT !.ev.acks = Append(@, "DETACH")], i, "FORCED")
       ELSE Dispatch(w0, i, in)

\* Lines 116-171.
_handle_client(w, i, in) ==
    LET w0 == MmioDone(w, i)
    IN IF in.poll = "NONE" THEN w0
       ELSE IF in.poll = "FAIL" THEN _free(w0, i, "FORCED")
       ELSE Dispatch(w0, i, in)

\* ---------------------------------------------------------------- _psl_loop

\* What the AFU yields in one clocked iteration: the result of
\* psl_get_afu_events and, for a positive one, what the events are.
AfuInputs ==
    {in \in [event : {-1, 0, 1}, aux2 : {"none", "running", "done"},
             ack : 0..MaxMmio, memc : 0..MaxClients] :
        in.event <= 0 => in.aux2 = "none" /\ in.ack = 0 /\ in.memc = 0}

\* _handle_afu: the handlers of the AFU's events, in the order of the code.
_handle_afu(w, in) ==
    [w EXCEPT !.psl = handle_aux2(@, in.aux2),
              !.mmio = handle_mmio_ack(@, w.client, in.ack),
              !.client = handle_cmd(@, in.memc)]

\* Lines 186-192: any state but IDLE restarts the countdown.
Restart(p) ==
    IF p.state # "IDLE" THEN [p EXCEPT !.idle_cycles = PSL_IDLE_CYCLES] ELSE p

\* The drive without the decrement of line 215.
Drive_without_decrement(w) ==
    LET w1 == [w EXCEPT !.psl.job = send_job(@), !.mmio = send_mmio(@)]
    IN IF w1.psl.job = "NULL" /\ MmioListEmpty(w1.mmio)
       THEN [w1 EXCEPT !.ev.counted = TRUE]
       ELSE w1

\* Lines 211-215: the queued job and mmio are sent, and an iteration that
\* leaves nothing outstanding counts the countdown down.
Drive(w) ==
    LET w1 == [w EXCEPT !.psl.job = send_job(@), !.mmio = send_mmio(@)]
    IN IF w1.psl.job = "NULL" /\ MmioListEmpty(w1.mmio)
       THEN [w1 EXCEPT !.psl.idle_cycles = @ - 1, !.ev.counted = TRUE]
       ELSE w1

\* Lines 186-223: the clocking half of one iteration.  brk is the break
\* of line 204.  (The local `stopped` only chooses what is logged.)
ClockStep(w, in) ==
    LET w1 == [w EXCEPT !.psl = Restart(@)]
    IN IF w1.psl.idle_cycles # 0
       THEN LET w2 == [w1 EXCEPT !.ev.edge = TRUE]
            IN IF in.event < 0
               THEN [w |-> w2, brk |-> TRUE]
               ELSE [w |-> Drive(IF in.event > 0 THEN _handle_afu(w2, in)
                                 ELSE w2),
                     brk |-> FALSE]
       ELSE [w |-> w1, brk |-> FALSE]

\* The release of a detaching client without the test of its countdown.
AfterClient_release_at_once(w, i, cmdActive) ==
    IF w.client[i].valid < 0
    THEN _free([w EXCEPT !.ev.acks = Append(@, "DETACH"),
                         !.ev.ackFd = w.client[i].fd], i, "DRAINED")
    ELSE LET w1 == IF w.client[i].idle_cycles # 0
                   THEN [w EXCEPT !.client[i].idle_cycles = @ - 1]
                   ELSE w
         IN IF cmdActive
            THEN [w1 EXCEPT !.client[i].idle_cycles = PSL_IDLE_CYCLES,
                            !.ev.cmd = TRUE]
            ELSE w1

\* The decrement of line 239 without the test of line 238.
AfterClient_unguarded_decrement(w, i, cmdActive) ==
    IF w.client[i].valid < 0 /\ w.client[i].idle_cycles = 0
    THEN _free([w EXCEPT !.ev.acks = Append(@, "DETACH"),
                         !.ev.ackFd = w.client[i].fd], i, "DRAINED")
    ELSE LET w1 == [w EXCEPT !.client[i].idle_cycles = @ - 1]
         IN IF cmdActive
            THEN [w1 EXCEPT !.client[i].idle_cycles = PSL_IDLE_CYCLES,
                            !.ev.cmd = TRUE]
            ELSE w1

\* The release of line 235 made before the ack of line 233.
AfterClient_ack_after_free(w, i, cmdActive) ==
    IF w.client[i].valid < 0 /\ w.client[i].idle_cycles = 0
    THEN LET w1 == _free(w, i, "DRAINED")
         IN [w1 EXCEPT !.ev.acks = Append(@, "DETACH"),
                       !.ev.ackFd = w1.client[i].fd]
    ELSE LET w1 == IF w.client[i].idle_cycles # 0
                   THEN [w EXCEPT !.client[i].idle_cycles = @ - 1]
                   ELSE w
         IN IF cmdActive
            THEN [w1 EXCEPT !.client[i].idle_cycles = PSL_IDLE_CYCLES,
                            !.ev.cmd = TRUE]
            ELSE w1

\* Lines 230-241: after _handle_client, a detaching client whose countdown
\* is zero gets the DETACH ack and is freed; any other counts down.
AfterClient(w, i, cmdActive) ==
    IF w.client[i].valid < 0 /\ w.client[i].idle_cycles = 0
    THEN _free([w EXCEPT !.ev.acks = Append(@, "DETACH"),
                         !.ev.ackFd = w.client[i].fd], i, "DRAINED")
    ELSE LET w1 == IF w.client[i].idle_cycles # 0
                   THEN [w EXCEPT !.client[i].idle_cycles = @ - 1]
                   ELSE w
         IN IF cmdActive
            THEN [w1 EXCEPT !.client[i].idle_cycles = PSL_IDLE_CYCLES,
                            !.ev.cmd = TRUE]
            ELSE w1

\* Lines 227-241: one pass of the for loop over the clients; cmdActive is
\* the result of client_cmd.
ClientStep(w, i, in, cmdActive) ==
    IF w.client[i].valid = 0
    THEN w
    ELSE AfterClient(
             _handle_client(
                 [w EXCEPT !.ev.i = i, !.ev.pre = Pre(w.client[i])], i, in),
             i, cmdActive)

\* ---------------------------------------------------------------- psl_init

Sessions == 1..MaxSessions

\* The characters psl_init compares the name with.
CHR_0 == 48
CHR_3 == 51
CHR_DOT == 46
AFU == <<97, 102, 117>>

\* A psl structure psl_init has not allocated yet.  Each resource is
\* none (never allocated), live or freed; conn is the AFU connection held
\* by afu_event.
NoSession ==
    [mem |-> "none", name |-> "none", host |-> "none", lock |-> "none",
     afu_event |-> "none", conn |-> "none", job |-> "none", mmio |-> "none",
     cmd |-> "none", thread |-> "none", state |-> "IDLE",
     _prev |-> 0, _next |-> 0]

\* The calls of psl_init that can fail, in the order of the code.
Stages ==
    <<"malloc_psl", "name", "malloc_name", "malloc_host", "malloc_afu_event",
      "psl_init_afu_event", "job_init", "mmio_init", "cmd_init",
      "psl_aux1_change", "pthread_create">>

StageNo(st) == CHOOSE k \in 1..Len(Stages) : Stages[k] = st

\* Line 300: the length, the prefix and the separator.
NameFormOk(id) ==
    ~(Len(id) # 6 \/ SubSeq(id, 1, 3) # AFU \/ id[5] # CHR_DOT)

\* Lines 304 and 308: the major and the minor digit.
MajorOk(id) == ~(id[4] < CHR_0 \/ id[4] > CHR_3)
MinorOk(id) == ~(id[6] < CHR_0 \/ id[6] > CHR_3)

\* The first stage at which the call fails: the name check of lines
\* 300-311 when the name is bad, else the call the caller's input fails.
FailStage(id, fail) ==
    LET bad == ~NameFormOk(id) \/ ~MajorOk(id) \/ ~MinorOk(id)
    IN IF fail = "malloc_psl" THEN fail
       ELSE IF bad THEN "name"
       ELSE fail

\* Lines 304-311 pass the character id[3] to a %s conversion of warn_msg:
\* undefined behaviour, reached when the form is right and a digit is not.
WarnsCharAsString(id) == NameFormOk(id) /\ (~MajorOk(id) \/ ~MinorOk(id))

\* Lines 394-405: init_fail_lock and init_fail.
InitFail(p, withLock) ==
    LET p1 == IF withLock THEN [p EXCEPT !.lock = "destroyed"] ELSE p
        p2 == IF p1.afu_event = "live"
              THEN [p1 EXCEPT !.afu_event = "freed"] ELSE p1
        p3 == IF p2.host = "live" THEN [p2 EXCEPT !.host = "freed"] ELSE p2
        p4 == IF p3.name = "live" THEN [p3 EXCEPT !.name = "freed"] ELSE p3
    IN [p4 EXCEPT !.mem = "freed"]

\* Lines 294-384 and 394-407: psl_init up to the start of the thread, when
\* stage `at` is the first to fail ("none": no stage fails).  The result is
\* the psl structure and the value returned, or ret 1 when the call goes
\* on to link the psl (line 386).
InitUpTo(at) ==
    LET k == IF at = "none" THEN Len(Stages) + 1 ELSE StageNo(at)
        Got(st) == k > StageNo(st)
        p == [NoSession EXCEPT
                !.mem = IF Got("malloc_psl") THEN "live" ELSE "none",
                !.name = IF Got("malloc_name") THEN "live" ELSE "none",
                !.host = IF Got("malloc_host") THEN "live" ELSE "none",
                !.lock = IF Got("malloc_host") THEN "live" ELSE "none",
                !.afu_event = IF Got("malloc_afu_event") THEN "live" ELSE "none",
                !.conn = IF Got("psl_init_afu_event") THEN "ok"
                         ELSE IF at = "psl_init_afu_event" THEN "failed"
                         ELSE "none",
                !.job = IF Got("job_init") THEN "live" ELSE "none",
                !.mmio = IF Got("mmio_init") THEN "live" ELSE "none",
                !.cmd = IF Got("cmd_init") THEN "live" ELSE "none",
                !.thread = IF Got("pthread_create") THEN "running" ELSE "none"]
    IN IF at = "none" THEN [p |-> p, ret |-> 1]
       ELSE IF at = "malloc_psl" THEN [p |-> p, ret |-> -1]
       ELSE [p |-> InitFail(p, k > StageNo("malloc_host")), ret |-> -1]

\* psl_init without the test of job_init's result.
psl_init_ignores_job_init(id, fail) ==
    InitUpTo(IF FailStage(id, fail) = "job_init" THEN "none"
             ELSE FailStage(id, fail))

\* psl_init for the name id, with the call `fail` failing.
psl_init(id, fail) == InitUpTo(FailStage(id, fail))

\* Lines 386-390: the psl is put at the head of the list.
psl_init_link(h, ss, s) ==
    LET ss1 == [ss EXCEPT ![s]._next = h]
        ss2 == IF h # 0 THEN [ss1 EXCEPT ![h]._prev = s] ELSE ss1
    IN [head |-> s, sessions |-> ss2]

\* Line 283 reads *(psl->head).  psl.c assigns psl->head nowhere, so the
\* worker finds there the NULL of the memset of line 299, and the read kills
\* the process ("killed") or yields a word that is not psl ("skipped"),
\* unless the caller of psl_init has stored the address of the list's head
\* in the field ("updated").
HeadReads == {"killed", "skipped", "updated"}

\* Lines 256-285: the end of _psl_loop.  The psl structure itself is not
\* freed.
Teardown(h, ss, s, rd) ==
    LET p == ss[s]
        ss1 == IF p._prev # 0 THEN [ss EXCEPT ![p._prev]._next = p._next]
               ELSE ss
        ss2 == IF p._next # 0 THEN [ss1 EXCEPT ![p._next]._prev = p._prev]
               ELSE ss1
        Free(r) == IF r = "none" THEN r ELSE "freed"
        ss3 == [ss2 EXCEPT ![s].lock = "destroyed",
                           ![s].cmd = Free(@), ![s].job = Free(@),
                           ![s].mmio = Free(@), ![s].host = Free(@),
                           ![s].afu_event = Free(@), ![s].name = Free(@),
                           ![s].thread = IF rd = "killed" THEN "killed"
                                         ELSE "exited"]
    IN [head |-> IF rd = "updated" /\ h = s THEN p._next ELSE h,
        sessions |-> ss3,
        killed |-> (rd = "killed")]

\* ------------------------------------------------------------------ inputs

AfuName(major, minor) == AFU \o <<major, CHR_DOT, minor>>

\* Names for psl_init: the digits at and around the ends of '0'..'3' (and
\* '9'), one wrong character at each position, and the lengths around 6.
DigitChars == {CHR_0 - 1, CHR_0, CHR_3, CHR_3 + 1, 57}
IdInputs ==
    {AfuName(a, CHR_0) : a \in DigitChars}
    \cup {AfuName(CHR_3, b) : b \in DigitChars}
    \cup {[AfuName(CHR_0, CHR_0) EXCEPT ![k] = 120] : k \in {1, 3, 5}}
    \cup {SubSeq(AfuName(CHR_0, CHR_0), 1, n) : n \in {0, 5}}
    \cup {AfuName(CHR_0, CHR_0) \o <<CHR_0>>}

FailInputs == {"none"} \cup ({Stages[k] : k \in 1..Len(Stages)} \ {"name"})

Min(a, b) == IF a < b THEN a ELSE b

\* ------------------------------------------------- the worker loop: Spec

\* The session psl_init leaves behind for "afu0.0" when no call fails.
FirstSession == psl_init_link(0, [s \in Sessions |->
                    IF s = 1 THEN psl_init(AfuName(CHR_0, CHR_0), "none").p
                    ELSE NoSession], 1)

FirstCall ==
    [n |-> 1, s |-> 1, id |-> AfuName(CHR_0, CHR_0), fail |-> "none",
     phase |-> "returned", ret |-> 0]

Init ==
    /\ psl = [state |-> "IDLE", idle_cycles |-> PSL_IDLE_CYCLES, job |-> "NULL"]
    /\ pc = "top"
    /\ idx = 1
    /\ client = [i \in Clients |-> NoClient]
    /\ mmio = [e \in MmioIds |-> "FREE"]
    /\ ev = NoEv
    /\ quiet = [all |-> 0, idle |-> 0]
    /\ head = FirstSession.head
    /\ sessions = FirstSession.sessions
    /\ call = FirstCall
    /\ crashed = FALSE

\* Line 181: the test of the while loop.
LoopTop ==
    /\ pc = "top"
    /\ pc' = IF psl.state # "DONE" THEN "clock" ELSE "exit"
    /\ ev' = NoEv
    /\ UNCHANGED <<psl, idx, client, mmio, quiet, lifeVars>>

\* Lines 186-223.
Clock ==
    /\ pc = "clock"
    /\ \E in \in AfuInputs : \E r \in {ClockStep(World, in)} :
        LET counted == r.w.ev.counted
        IN /\ psl' = r.w.psl
           /\ client' = r.w.client
           /\ mmio' = r.w.mmio
           /\ ev' = r.w.ev
           /\ pc' = IF r.brk THEN "exit" ELSE "clients"
           /\ quiet' =
                IF ~r.w.ev.edge THEN quiet
                ELSE IF r.brk THEN [all |-> 0, idle |-> 0]
                ELSE [all |-> IF counted
                              THEN Min(quiet.all + 1, PSL_IDLE_CYCLES) ELSE 0,
                      idle |-> IF counted /\ psl.state = "IDLE"
                               THEN Min(quiet.idle + 1, PSL_IDLE_CYCLES)
                               ELSE 0]
    /\ idx' = 1
    /\ UNCHANGED lifeVars

\* Lines 226-242: the pass for client idx.
HandleClient ==
    /\ pc = "clients"
    /\ \E in \in ClientInputs, cmdActive \in BOOLEAN :
        /\ client[idx].valid = 0 => in.poll = "NONE" /\ ~cmdActive
        /\ \E w \in {ClientStep(World, idx, in, cmdActive)} :
           /\ psl' = w.psl
           /\ client' = w.client
           /\ mmio' = w.mmio
           /\ ev' = w.ev
           /\ quiet' = IF w.ev.attach = "OK" THEN [all |-> 0, idle |-> 0]
                       ELSE quiet
    /\ IF idx < MaxClients
       THEN idx' = idx + 1 /\ pc' = pc
       ELSE idx' = 1 /\ pc' = "top"
    /\ UNCHANGED lifeVars

\* Lines 245-285: the clients still valid are closed, and the psl is torn
\* down.
LoopExit ==
    /\ pc = "exit"
    /\ client' = [i \in Clients |->
                    IF client[i].valid # 0
                    THEN [client[i] EXCEPT !.closes = @ + 1]
                    ELSE client[i]]
    /\ \E rd \in HeadReads :
        LET t == Teardown(head, sessions, 1, rd)
        IN /\ head' = t.head /\ sessions' = t.sessions
           /\ crashed' = t.killed
           /\ pc' = IF t.killed THEN "killed" ELSE "done"
    /\ ev' = NoEv
    /\ UNCHANGED <<psl, idx, mmio, quiet, call>>

\* A client connects: the server fills a free slot of the table.
Connect ==
    /\ pc \notin {"exit", "done", "killed"}
    /\ \E i \in Clients :
        /\ client[i].valid = 0
        /\ client' = [client EXCEPT ![i] =
                        [fd |-> 1, valid |-> 1, idle_cycles |-> PSL_IDLE_CYCLES,
                         ip |-> TRUE, mem_access |-> "NULL", mmio_access |-> 0,
                         closes |-> 0]]
    /\ ev' = NoEv
    /\ UNCHANGED <<psl, pc, idx, mmio, quiet, lifeVars>>

\* Code outside psl.c sets the session's state to PSLSE_DONE.
Cancel ==
    /\ pc \notin {"exit", "done", "killed"}
    /\ psl.state # "DONE"
    /\ psl' = [psl EXCEPT !.state = "DONE"]
    /\ ev' = NoEv
    /\ UNCHANGED <<pc, idx, client, mmio, quiet, lifeVars>>

Next == LoopTop \/ Clock \/ HandleClient \/ LoopExit \/ Connect \/ Cancel

Spec == Init /\ [][Next]_vars

\* The worker thread keeps running: each of its steps is taken when it is
\* the next one (every wait of the loop is bounded: poll and get_bytes
\* have timeouts, ns_delay returns).  Connect and Cancel are the
\* environment's and need not happen.
FairSpec ==
    /\ Spec
    /\ WF_vars(LoopTop) /\ WF_vars(Clock)
    /\ WF_vars(HandleClient) /\ WF_vars(LoopExit)

\* ------------------------------------------- the list of psls: LifeSpec

NoCall ==
    [n |-> 0, s |-> 0, id |-> <<>>, fail |-> "none", phase |-> "idle",
     ret |-> 0]

LifeInit ==
    /\ psl = [state |-> "IDLE", idle_cycles |-> PSL_IDLE_CYCLES, job |-> "NULL"]
    /\ pc = "top"
    /\ idx = 1
    /\ client = [i \in Clients |-> NoClient]
    /\ mmio = [e \in MmioIds |-> "FREE"]
    /\ ev = NoEv
    /\ quiet = [all |-> 0, idle |-> 0]
    /\ head = 0
    /\ sessions = [s \in Sessions |-> NoSession]
    /\ call = NoCall
    /\ crashed = FALSE

\* psl_init is called and runs to its return, or to line 386 when no call
\* fails.  Where the code passes a character to %s the process may be
\* killed instead.
PslInitStart ==
    /\ ~crashed
    /\ call.phase # "linking"
    /\ call.n < MaxSessions
    /\ \E id \in IdInputs, fail \in FailInputs, killed \in BOOLEAN :
        /\ FailStage(id, fail) = "name" => fail = "none"
        /\ killed => WarnsCharAsString(id) /\ fail # "malloc_psl"
        /\ \E r \in {psl_init(id, fail)} :
            LET s == call.n + 1
            IN /\ sessions' = [sessions EXCEPT ![s] =
                                 IF killed
                                 THEN [NoSession EXCEPT !.mem = "live"]
                                 ELSE r.p]
               /\ call' = [n |-> s, s |-> s, id |-> id, fail |-> fail,
                           phase |-> IF killed THEN "killed"
                                     ELSE IF r.ret = 1 THEN "linking"
                                     ELSE "returned",
                           ret |-> IF killed \/ r.ret = 1 THEN 0 ELSE r.ret]
               /\ crashed' = killed
    /\ UNCHANGED <<head, loopVars>>

\* Lines 386-392.
PslInitLink ==
    /\ ~crashed
    /\ call.phase = "linking"
    /\ LET r == psl_init_link(head, sessions, call.s)
       IN head' = r.head /\ sessions' = r.sessions
    /\ call' = [call EXCEPT !.phase = "returned", !.ret = 0]
    /\ UNCHANGED <<crashed, loopVars>>

\* Code outside psl.c sets a session's state to PSLSE_DONE.
LifeCancel ==
    /\ ~crashed
    /\ \E s \in Sessions :
        /\ sessions[s].thread = "running"
        /\ sessions[s].state # "DONE"
        /\ sessions' = [sessions EXCEPT ![s].state = "DONE"]
    /\ UNCHANGED <<head, call, crashed, loopVars>>

\* The worker of a session leaves its loop (state DONE, or an error on the
\* AFU's socket) and runs lines 245-285.
LifeTeardown ==
    /\ ~crashed
    /\ \E s \in Sessions :
        /\ sessions[s].thread = "running"
        /\ \E rd \in HeadReads :
            LET t == Teardown(head, sessions, s, rd)
            IN /\ head' = t.head /\ sessions' = t.sessions
               /\ crashed' = t.killed
    /\ UNCHANGED <<call, loopVars>>

LifeNext == PslInitStart \/ PslInitLink \/ LifeCancel \/ LifeTeardown

LifeSpec == LifeInit /\ [][LifeNext]_vars

\* ------------------------------------------------------------- properties

\* The name format as the interface states it: 6 characters, "afu", a
\* digit '0'..'3', '.', a digit '0'..'3'.
WellFormedName(id) ==
    /\ Len(id) = 6
    /\ id[1] = 97 /\ id[2] = 102 /\ id[3] = 117
    /\ id[4] \in 48..51
    /\ id[5] = 46
    /\ id[6] \in 48..51

\* The _prev and _next links of every psl.
Links(ss) == [s \in Sessions |-> <<ss[s]._prev, ss[s]._next>>]

\* The psls reached from h along _next.
RECURSIVE ReachFrom(_, _, _)
ReachFrom(ss, s, n) ==
    IF s = 0 \/ n = 0 THEN {} ELSE {s} \cup ReachFrom(ss, ss[s]._next, n - 1)

Registry == ReachFrom(sessions, head, MaxSessions)

\* The resources of a psl that are allocated and not freed.
LiveResources(p) ==
    {f \in {"mem", "name", "host", "lock", "afu_event", "job", "mmio", "cmd"} :
        p[f] = "live"}

\* A step that is a call of psl_init.
IsCall == call'.n # call.n

\* C1: psl_init with a name that is not well formed returns failure,
\* starts no thread and leaves the head and every link of the list as they
\* were.
C1_BadNameFails ==
    [][IsCall /\ ~WellFormedName(call'.id) =>
          /\ call'.phase = "returned" /\ call'.ret = -1
          /\ sessions'[call'.s].thread = "none"
          /\ head' = head
          /\ Links(sessions') = Links(sessions)]_vars

\* C2, as claimed: for a well-formed name psl_init succeeds if and only if
\* the connection to the AFU succeeds.
C2_SucceedsIffConnected ==
    call.phase = "returned" /\ WellFormedName(call.id) =>
        (call.ret = 0 <=> sessions[call.s].conn = "ok")

\* C2, amended: for a well-formed name psl_init succeeds if and only if no
\* call of it fails, which takes the connection to have succeeded; a psl
\* whose connection failed has no thread and is not in the list.
C2_SucceedsIffNothingFails ==
    /\ call.phase = "returned" /\ WellFormedName(call.id) =>
          /\ call.ret = 0 <=> call.fail = "none"
          /\ call.ret = 0 => sessions[call.s].conn = "ok"
    /\ \A s \in Sessions :
          sessions[s].conn = "failed" =>
              sessions[s].thread = "none" /\ s \notin Registry

\* A well-formed name, the connection refused, with a psl already in the
\* list.
C2_Witness ==
    /\ call.phase = "returned" /\ WellFormedName(call.id)
    /\ call.fail = "psl_init_afu_event" /\ call.ret = -1
    /\ sessions[call.s].conn = "failed"
    /\ head # 0

\* C3: when psl_init fails, nothing the call allocated or initialised is
\* still allocated when it returns.
C3_FailureReleasesAll ==
    call.phase = "returned" /\ call.ret = -1 =>
        LiveResources(sessions[call.s]) = {}

\* C4: _attach writes exactly one ack byte: ATTACH if the wed was read and
\* the job was accepted, DETACH otherwise.
C4_OneAck ==
    ev.attach # "NONE" =>
        /\ Len(ev.acks) = 1
        /\ ev.acks[1] = "ATTACH" <=> ev.attach = "OK"
        /\ ev.acks[1] = "DETACH" <=> ev.attach \in {"READFAIL", "JOBFAIL"}

\* An attach whose read of the wed failed.
C4_Witness == ev.attach = "READFAIL" /\ ev.acks = <<"DETACH">>

\* C5: an attach that starts the job sets the session's countdown to
\* PSL_IDLE_CYCLES; a failed attach leaves the session's state and
\* countdown and the client's valid, mem_access and mmio_access as they
\* were.
C5_AttachFrame ==
    /\ ev.attach = "OK" => psl.idle_cycles = PSL_IDLE_CYCLES
    /\ ev.attach \in {"READFAIL", "JOBFAIL"} => ev.attKept

\* The job handler refuses the job while the countdown has run down.
C5_Witness ==
    /\ ev.attach = "JOBFAIL"
    /\ psl.idle_cycles < PSL_IDLE_CYCLES
    /\ client[ev.i].valid = 1

\* C6, as claimed: no MEM or MMIO byte of a client that was detaching is
\* handed to the cmd or the mmio handler.
C6_NoDispatchOnceDetaching == ~(ev.pre.valid = -1 /\ ev.dispatched)

\* C6, amended: a detaching client never becomes valid again; its MEM and
\* MMIO bytes are still dispatched, and they restart its countdown and
\* leave it detaching.
C6_DetachOneWay ==
    /\ [][\A i \in Clients :
            client[i].valid = -1 => client'[i].valid \in {-1, 0}]_vars
    /\ [](ev.pre.valid = -1 /\ ev.dispatched =>
            /\ client[ev.i].valid = -1
            /\ ev.freed = "NONE"
            /\ client[ev.i].idle_cycles >= PSL_IDLE_CYCLES - 1)

\* A byte of a detaching client has been dispatched.
C6_Witness ==
    ev.pre.valid = -1 /\ ev.dispatched /\ client[ev.i].valid = -1

\* C7, as claimed: a detaching client is released only when its countdown
\* is zero.
C7_ReleaseOnlyAtZero ==
    ev.freed # "NONE" /\ ev.relValid = -1 => ev.relIdle = 0

\* C7, amended: the loop's release of a detaching client (ack, then _free)
\* happens only when its countdown is zero; a detaching client released
\* with a nonzero countdown is released by _handle_client after a failed
\* read, without an ack; the only other close of a detaching client's
\* socket is the one at the exit of the loop.
C7_DrainOnlyAtZero ==
    /\ [](/\ ev.freed = "DRAINED" =>
                ev.relValid = -1 /\ ev.relIdle = 0 /\ ev.acks = <<"DETACH">>
          /\ ev.freed # "NONE" /\ ev.relValid = -1 /\ ev.relIdle # 0 =>
                ev.freed = "FORCED" /\ ev.acks = <<>>)
    /\ [][\A i \in Clients :
            client[i].valid = -1 /\ client'[i].closes # client[i].closes =>
                \/ ev'.i = i /\ ev'.freed \in {"DRAINED", "FORCED"}
                \/ pc = "exit"]_vars

\* A detaching client has been released by the loop.
C7_Witness ==
    ev.freed = "DRAINED" /\ ev.pre.valid = -1 /\ client[ev.i].valid = 0

\* The case of C8: a valid client with no access in flight and a countdown
\* of zero, whose DETACH byte has been read.
C8_Case ==
    ev.detach /\ ev.pre = [valid |-> 1, idle_cycles |-> 0, busy |-> FALSE]

\* C8, as claimed: that client gets the DETACH ack and is released in the
\* same iteration.
C8_ReleasedAtOnce ==
    C8_Case => ev.acks = <<"DETACH">> /\ ev.freed # "NONE"

\* C8, amended: in that iteration the client becomes detaching with its
\* countdown restarted; it gets no ack and is not released.
C8_DetachRestartsCountdown ==
    C8_Case =>
        /\ client[ev.i].valid = -1
        /\ client[ev.i].idle_cycles >= PSL_IDLE_CYCLES - 1
        /\ ev.acks = <<>>
        /\ ev.freed = "NONE"

C8_Witness == C8_Case /\ client[ev.i].valid = -1

\* C9: the session's countdown and every client's countdown are within
\* 0..PSL_IDLE_CYCLES.
C9_CountdownRange ==
    /\ psl.idle_cycles \in 0..PSL_IDLE_CYCLES
    /\ \A i \in Clients : client[i].idle_cycles \in 0..PSL_IDLE_CYCLES

\* Both countdowns have been counted down to zero.
C9_Witness ==
    /\ ev.counted /\ psl.idle_cycles = 0
    /\ \E i \in Clients : client[i].valid # 0 /\ client[i].idle_cycles = 0

\* C10, as claimed: after PSL_IDLE_CYCLES consecutive clocked iterations
\* with no job and no mmio outstanding the countdown is zero, so that the
\* AFU is clocked no more.
C10_StopsWhenNothingOutstanding ==
    quiet.all = PSL_IDLE_CYCLES => psl.idle_cycles = 0

\* C10, amended: after PSL_IDLE_CYCLES consecutive clocked iterations that
\* began in state IDLE and found no job and no mmio outstanding the
\* countdown is zero; from a countdown of zero the AFU is clocked only in
\* an iteration that finds the state not IDLE, and the countdown leaves
\* zero only there or by an attach that starts a job.
C10_StopsWhenIdle ==
    /\ [](quiet.idle = PSL_IDLE_CYCLES => psl.idle_cycles = 0)
    /\ [][psl.idle_cycles = 0 /\ ev'.edge => psl.state # "IDLE"]_vars
    /\ [][psl.idle_cycles = 0 /\ psl'.idle_cycles # 0 =>
            \/ ev'.attach = "OK"
            \/ pc = "clock" /\ psl.state # "IDLE"]_vars

\* An iteration that did not clock the AFU, the countdown having run down.
C10_Witness ==
    /\ quiet.idle = PSL_IDLE_CYCLES /\ psl.idle_cycles = 0
    /\ pc = "clients" /\ idx = 1 /\ ~ev.edge /\ psl.state = "IDLE"

\* An mmio request is queued and the AFU is not being clocked.
QueuedWhileStopped ==
    psl.idle_cycles = 0 /\ \E e \in MmioIds : mmio[e] = "PENDING"

\* The worker has left its loop.
LoopLeft == pc \in {"exit", "done", "killed"}

\* C11: an mmio request queued by a client while the clock is stopped is
\* eventually sent to the AFU (unless the worker leaves its loop).
C11_QueuedRequestIsSent ==
    QueuedWhileStopped ~> ((\A e \in MmioIds : mmio[e] # "PENDING") \/ LoopLeft)

\* C12: _free leaves the client INVALID with its socket marked closed and
\* no mem_access, mmio_access or ip; a memory access that was not MEM_DONE
\* has been completed with the address error, one that was MEM_DONE has
\* not been touched; and no INVALID client has an access in flight.
C12_ReleaseClearsAccess ==
    /\ ev.freed # "NONE" =>
          /\ client[ev.i].valid = 0 /\ client[ev.i].fd = -1
          /\ client[ev.i].mem_access = "NULL"
          /\ client[ev.i].mmio_access = 0
          /\ ~client[ev.i].ip
          /\ ev.relMem = "MEM_ACTIVE" => ev.forced
          /\ ev.relMem \in {"NULL", "MEM_DONE"} => ~ev.forced
    /\ \A i \in Clients :
          client[i].valid = 0 =>
              /\ client[i].mem_access = "NULL"
              /\ client[i].mmio_access = 0
              /\ ~client[i].ip

\* A client has been released while its memory access was under way, and
\* one while its memory access was MEM_DONE.
C12_Witness ==
    /\ ev.freed # "NONE" /\ ev.relMem = "MEM_ACTIVE" /\ ev.forced
    /\ ev.pre.busy /\ client[ev.i].valid = 0

C12_WitnessDone ==
    ev.freed # "NONE" /\ ev.relMem = "MEM_DONE" /\ ~ev.forced

\* C13: a client whose socket hangs up or whose command byte cannot be read
\* is released in that pass and is written no ack; the session's state is
\* left as it was, the worker stays in its loop, and no other client's
\* slot changes.
C13_FailedReadIsLocal ==
    /\ [](ev.freed = "FORCED" =>
            /\ client[ev.i].valid = 0 /\ client[ev.i].fd = -1
            /\ ev.acks = <<>>
            /\ pc \in {"clients", "top"})
    /\ [][ev'.freed = "FORCED" =>
            /\ psl' = psl
            /\ \A j \in Clients \ {ev'.i} : client'[j] = client[j]]_vars

\* A client has been released after a failed read while another one is
\* connected.
C13_Witness ==
    /\ ev.freed = "FORCED" /\ ev.pre.valid = 1
    /\ \E j \in Clients \ {ev.i} : client[j].valid = 1

\* The step that runs lines 245-285 has closed the socket of every client
\* that was VALID or DETACHING, has written no ack, has clocked nothing and
\* has ended the thread with pthread_exit.
ExitCompleted ==
    /\ pc' = "done"
    /\ \A i \in Clients :
          client[i].valid # 0 => client'[i].closes = client[i].closes + 1
    /\ ev'.acks = <<>> /\ ~ev'.edge
    /\ sessions'[1].thread = "exited"

\* C14: when psl_get_afu_events answers a negative value the worker leaves
\* the loop in that iteration: no event of the AFU is handled, nothing is
\* sent, no client is served and no ack is written; the sockets of the
\* clients still connected are closed, teardown runs and the thread exits.
C14_TransportErrorEndsWorker ==
    /\ [][pc = "clock" /\ pc' = "exit" =>
            /\ client' = client /\ mmio' = mmio
            /\ psl'.state = psl.state /\ psl'.job = psl.job
            /\ ev'.acks = <<>>]_vars
    /\ [][pc = "exit" /\ psl.state # "DONE" => ExitCompleted]_vars

\* C15, for the client slots: every write of a slot's valid is made with
\* the session lock held.
C15_ValidWrittenUnderLock == ~ev.unlocked

\* C16: once the state is DONE the worker starts no new iteration when it
\* next comes to the top of its loop; it then closes the remaining
\* sockets, runs teardown and exits, and this does happen.
C16_CancelEndsWorker ==
    /\ [][pc = "top" /\ psl.state = "DONE" /\ pc' # pc => pc' = "exit"]_vars
    /\ [][pc = "exit" /\ psl.state = "DONE" => ExitCompleted]_vars
    /\ (psl.state = "DONE") ~> (pc = "done")

\* Every psl whose worker has been started is in the list exactly while
\* its state is not DONE and its worker has not finished teardown.
RegisteredWhileLive ==
    \A s \in Sessions :
        sessions[s].thread # "none" =>
            (s \in Registry <=>
                sessions[s].state # "DONE" /\ sessions[s].thread # "exited")

\* C17: at every point of every interleaving of psl_init and the workers, a
\* psl is reachable from the head exactly while its state is not DONE and
\* its teardown has not completed; no psl whose teardown has completed is
\* reachable.
C17_RegisteredIffLive ==
    ~crashed =>
        /\ RegisteredWhileLive
        /\ \A s \in Sessions :
              sessions[s].thread = "exited" => s \notin Registry

\* The list from h is doubly linked: the head has no predecessor and each
\* successor points back.
WellLinked(h, ss) ==
    /\ h # 0 => ss[h]._prev = 0
    /\ \A s \in ReachFrom(ss, h, MaxSessions) :
          ss[s]._next # 0 => ss[ss[s]._next]._prev = s

\* A step in which the worker of s runs teardown while no psl_init is under
\* way.
TeardownAlone(s) ==
    /\ call.phase # "linking"
    /\ sessions[s].thread = "running" /\ sessions'[s].thread # "running"

\* C18: with psl_init and teardown run one at a time, psl_init puts the new
\* psl at the head with the former head as its _next, and teardown takes
\* its psl, and nothing else, out of the list, the head moving to the
\* psl's _next when the psl was the head; the list stays doubly linked.
C18_ListKept ==
    /\ [][call.phase = "linking" /\ call'.phase = "returned" =>
            /\ head' = call.s
            /\ sessions'[call.s]._next = head
            /\ head # 0 => sessions'[head]._prev = call.s]_vars
    /\ [][\A s \in Sessions :
            TeardownAlone(s) /\ WellLinked(head, sessions) =>
                /\ ~crashed'
                /\ head' = IF head = s THEN sessions[s]._next ELSE head
                /\ ReachFrom(sessions', head', MaxSessions)
                       = Registry \ {s}
                /\ WellLinked(head', sessions')]_vars

\* A pass over client i, DETACHING and with no mmio access, in which no
\* byte is read and client_cmd answers false.
SilentPass(i) ==
    /\ pc = "clients" /\ idx = i /\ ev'.i = i
    /\ client[i].valid = -1 /\ client[i].mmio_access = 0
    /\ ~ev'.read /\ ~ev'.cmd

\* What a silent pass does to a draining client: a countdown above zero
\* goes down by one, with no ack and no release; at zero the client gets
\* one DETACH ack, written inside the lock to the open socket, and is
\* released.
Drains(i) ==
    IF client[i].idle_cycles > 0
    THEN /\ client'[i].valid = -1
         /\ client'[i].idle_cycles = client[i].idle_cycles - 1
         /\ ev'.acks = <<>> /\ ev'.freed = "NONE"
    ELSE /\ ev'.freed = "DRAINED" /\ client'[i].valid = 0
         /\ ev'.acks = <<"DETACH">>
         /\ ev'.ackLocked /\ ev'.ackFd = client[i].fd /\ ev'.ackFd # -1

\* The pass that reads the DETACH byte, client_cmd answering false, leaves
\* the countdown at PSL_IDLE_CYCLES - 1.
DetachStartsDrain ==
    ev.detach /\ ~ev.cmd => client[ev.i].idle_cycles = PSL_IDLE_CYCLES - 1

\* C19, as claimed: a DETACHING client that sends no byte, has no mmio
\* access and no cmd activity counts down by one in each iteration and is
\* released, with one DETACH ack, in the PSL_IDLE_CYCLES-th iteration
\* after the one that read its DETACH byte.
C19_SilentClientDrains ==
    /\ []DetachStartsDrain
    /\ [][\A i \in Clients : SilentPass(i) => Drains(i)]_vars

\* C19, amended: the same, for a client whose socket does not hang up and
\* can be read.
C19_SilentOpenClientDrains ==
    /\ []DetachStartsDrain
    /\ [][\A i \in Clients :
            SilentPass(i) /\ ev'.freed # "FORCED" => Drains(i)]_vars

\* A client has been released at the end of its draining, its countdown
\* having been counted down from PSL_IDLE_CYCLES.
C19_Witness ==
    /\ ev.freed = "DRAINED" /\ ev.acks = <<"DETACH">>
    /\ ev.pre = [valid |-> -1, idle_cycles |-> 0, busy |-> FALSE]
    /\ ~ev.read /\ ev.ackFd = 1

\* C20: the socket of a client's connection is closed at most once, in the
\* loop or at its exit, and _free is never applied to a slot that is
\* INVALID.
C20_ClosedOnce ==
    /\ \A i \in Clients : client[i].closes <= 1
    /\ ev.freed # "NONE" => ev.relValid # 0

\* The loop has been left with one client released in it and one closed
\* at the exit.
C20_Witness ==
    /\ pc = "done"
    /\ \E i, j \in Clients :
          /\ client[i].valid = 0 /\ client[i].closes = 1
          /\ client[j].valid # 0 /\ client[j].closes = 1

====
